---- MODULE Spec2Model ----
(***************************************************************************)
(* The allocation Manager of internal/allocation/allocation_manager.go:    *)
(* the directory of allocations, their lifetime timers, the registry of     *)
(* connection ids (waiting / running), the reservation list with its       *)
(* expiry callbacks, and GetRandomEvenPort.                                *)
(*                                                                         *)
(* Threads are the caller goroutines (Procs) and one lifetime-timer        *)
(* callback per allocation instance (the thread of instance a is a).       *)
(* A critical section under m.lock.Lock() is one step whose guard is that  *)
(* no reader holds the lock; BindConnection, which only takes RLock, is    *)
(* several steps, so that two readers interleave as the RWMutex allows.    *)
(***************************************************************************)
EXTENDS Integers, FiniteSets, Sequences, TLC

\* ------------------------------------------------------------------ bounds
MaxAllocs == 2          \* allocation instances NewAllocation may build
MaxManagerClose == 1    \* calls of Manager.Close
MaxConnAllocs == 1      \* allocation instances in SpecConns
MaxCID == 2             \* rand.Uint32() draws from 0..MaxCID
MaxReservations == 2    \* calls of CreateReservation
MaxProbes == 2          \* endpoints GetRandomEvenPort may obtain

Procs == {-1, -2}          \* the caller goroutines
Allocs == 1..MaxAllocs
Threads == Procs \cup Allocs
CIDs == 0..MaxCID
Dsts == {"peer"}
Calls == 1..MaxReservations
Tokens == {"t1", "t2"}
ReservedPorts == {1, 2}
\* What the capability may hand to GetRandomEvenPort: the address is a
\* *net.UDPAddr or another net.Addr, the port any int.
AddrKinds == {"UDPAddr", "other"}
Ports == {-1, 0, 1, 2}

\* ------------------------------------------------------------------ values
NoAlloc == 0            \* a nil *Allocation
NilAddr == "nil"
NilSocket == "nil"
NilTuple == [Protocol |-> "nil", SrcAddr |-> NilAddr, DstAddr |-> NilAddr]

ValidTuples ==
  { [Protocol |-> "UDP", SrcAddr |-> "client", DstAddr |-> "server"],
    [Protocol |-> "TCP", SrcAddr |-> "client", DstAddr |-> "server"] }

\* What callers may hand to CreateAllocation.
Tuples ==
  ValidTuples \cup
  { NilTuple,
    [Protocol |-> "UDP", SrcAddr |-> NilAddr, DstAddr |-> "server"],
    [Protocol |-> "UDP", SrcAddr |-> "client", DstAddr |-> NilAddr] }
TurnSockets == {NilSocket, "sock"}
Lifetimes == {-1, 0, 1}
\* The calls of CreateAllocation: the valid ones, and those with one bad argument.
CreateInputs ==
  (ValidTuples \X {"sock"} \X (Lifetimes \ {0}))
    \cup ((Tuples \ ValidTuples) \X {"sock"} \X {1})
    \cup (ValidTuples \X {NilSocket} \X {1})
    \cup (ValidTuples \X {"sock"} \X {0})

\* FiveTuple.Fingerprint: the key of the directory, made of the three fields.
Fingerprint(ft) == <<ft.Protocol, ft.SrcAddr, ft.DstAddr>>
Fingerprints == {Fingerprint(ft) : ft \in ValidTuples}

VARIABLES
  allocations,   \* m.allocations: fingerprint -> instance, NoAlloc when absent
  alloc,         \* the Allocation objects, by instance
  nAlloc,        \* instances built so far
  nClose,        \* Manager.Close calls so far
  pc,            \* where each thread is
  loc,           \* each thread's locals
  ret,           \* the latest return of an operation to a caller
  readers,       \* the threads holding m.lock.RLock()
  waitingconns,  \* m.waitingconns
  runningconns,  \* m.runningconns
  conns,         \* the Allocations' peer connections: cid -> [a, dst]
  tmo,           \* the removeAfter30 goroutines: cid -> dst, or "none"
  handles,       \* per cid, how many BindConnection calls returned its handle
  expired,       \* the cids a claim timeout has removed from the waiting set
  fault,         \* the runtime fault the process died of, "none" while it runs
  reservations,  \* m.reservations: the list of [token, port, call]
  rsv,           \* the CreateReservation calls and their expiry timers
  probes         \* the endpoints GetRandomEvenPort obtained, and those it closed

vars == <<allocations, alloc, nAlloc, nClose, pc, loc, ret, readers,
          waitingconns, runningconns, conns, tmo, handles, expired, fault,
          reservations, rsv, probes>>

allocVars == <<allocations, alloc, nAlloc, nClose>>
connVars == <<waitingconns, runningconns, conns, tmo, handles, expired>>
resVars == <<reservations, rsv, probes>>

NoLoc == [ft |-> NilTuple, a |-> NoAlloc, cid |-> 0, dst |-> "none", k |-> 0]
NoRet == [op |-> "none", val |-> 0, err |-> "none"]
NoConn == [a |-> NoAlloc, dst |-> "none"]
NoCall == [token |-> "none", port |-> 0, call |-> "none", timer |-> "unset"]
NoProbes == [obtained |-> 0, closed |-> 0]
NewAlloc == [fiveTuple |-> NilTuple, relay |-> "none", closeCalls |-> 0,
             delCloses |-> 0, task |-> FALSE]

\* ------------------------------------------------------------------ maps
\* Go's map operations, on a map that was made or on a nil map.
\* A map is nil (made = FALSE) until it is made; at[k] = NoAlloc: no entry k.
NilMap == [made |-> FALSE, at |-> [c \in CIDs |-> NoAlloc]]
EmptyMap == [made |-> TRUE, at |-> [c \in CIDs |-> NoAlloc]]
MapGet(m, k) == IF m.made THEN m.at[k] ELSE NoAlloc
MapHas(m, k) == m.made /\ m.at[k] # NoAlloc
MapDelete(m, k) == IF m.made THEN [m EXCEPT !.at[k] = NoAlloc] ELSE m
MapSet(m, k, v) == [m EXCEPT !.at[k] = v]

\* ------------------------------------------------------------------ init
\* NewManager: only m.allocations is made.
Init ==
  /\ allocations = [f \in Fingerprints |-> NoAlloc]
  /\ alloc = [a \in Allocs |-> NewAlloc]
  /\ nAlloc = 0
  /\ nClose = 0
  /\ pc = [t \in Threads |-> IF t \in Procs THEN "idle" ELSE "unset"]
  /\ loc = [t \in Threads |-> NoLoc]
  /\ ret = NoRet
  /\ readers = {}
  /\ waitingconns = NilMap
  /\ runningconns = NilMap
  /\ conns = [c \in CIDs |-> NoConn]
  /\ tmo = [c \in CIDs |-> "none"]
  /\ handles = [c \in CIDs |-> 0]
  /\ expired = {}
  /\ fault = "none"
  /\ reservations = << >>
  /\ rsv = [k \in Calls |-> NoCall]
  /\ probes = NoProbes

\* Where a thread goes when its operation returns.
Finish(t) == IF t \in Procs THEN "idle" ELSE "done"

\* ret holds what the step just taken returned to its caller, NoRet when
\* the step was no return.
Return(t, r) ==
  /\ pc' = [pc EXCEPT ![t] = Finish(t)]
  /\ loc' = [loc EXCEPT ![t] = NoLoc]
  /\ ret' = IF t \in Procs THEN r ELSE NoRet

Alive == fault = "none"

\* ------------------------------------------------------------------ allocations
GetAllocation(ft) == allocations[Fingerprint(ft)]

\* The switch that opens CreateAllocation.
ValidateCreate(ft, sock, lifetime) ==
  CASE ft = NilTuple -> "ErrNilFiveTuple"
    [] ft.SrcAddr = NilAddr -> "ErrNilSrcAddr"
    [] ft.DstAddr = NilAddr -> "ErrNilDstAddr"
    [] sock = NilSocket -> "ErrNilTurnSocket"
    [] lifetime = 0 -> "ErrZeroLifetime"
    [] OTHER -> "ok"

\* The duplicate test left out.
IsDuplicateNever(ft) == FALSE
\* if a := m.GetAllocation(fiveTuple); a != nil
IsDuplicate(ft) == GetAllocation(ft) # NoAlloc

\* Creations under way that will still build an instance.
Building == Cardinality({q \in Procs : pc[q] = "c_alloc"})

\* CreateAllocation up to the duplicate check.
CreateAllocation(p, ft, sock, lifetime) ==
  /\ Alive
  /\ pc[p] = "idle"
  /\ LET e == ValidateCreate(ft, sock, lifetime) IN
     IF e # "ok"
       THEN /\ Return(p, [op |-> "create", val |-> NoAlloc, err |-> e])
     ELSE IF IsDuplicate(ft)
       THEN /\ Return(p, [op |-> "create", val |-> NoAlloc, err |-> "ErrDuplicate"])
     ELSE /\ nAlloc + Building < MaxAllocs
          /\ pc' = [pc EXCEPT ![p] = "c_alloc"]
          /\ loc' = [loc EXCEPT ![p] = [NoLoc EXCEPT !.ft = ft]]
          /\ ret' = NoRet
  /\ UNCHANGED <<allocVars, connVars, readers, fault, resVars>>

\* The timer armed before the capability is asked: its failure leaves an
\* instance with an armed timer behind.
RelayFailedArmed(p) ==
  LET a == nAlloc + 1 IN
  /\ nAlloc' = a
  /\ alloc' = [alloc EXCEPT ![a] = [NewAlloc EXCEPT !.fiveTuple = loc[p].ft]]
  /\ pc' = [pc EXCEPT ![p] = "idle", ![a] = "armed"]
  /\ loc' = [loc EXCEPT ![p] = NoLoc]
  /\ ret' = [op |-> "create", val |-> NoAlloc, err |-> "ErrAllocate"]
\* The capability returned an error: return nil, err.
RelayFailed(p) ==
  /\ Return(p, [op |-> "create", val |-> NoAlloc, err |-> "ErrAllocate"])
  /\ UNCHANGED <<nAlloc, alloc>>

\* NewAllocation, the injected capability, and time.AfterFunc.
CreateRelay(p, ok) ==
  /\ Alive
  /\ pc[p] = "c_alloc"
  /\ IF ok
       THEN LET a == nAlloc + 1 IN
            /\ nAlloc' = a
            /\ alloc' = [alloc EXCEPT ![a] =
                 [NewAlloc EXCEPT !.fiveTuple = loc[p].ft, !.relay = "open"]]
            /\ pc' = [pc EXCEPT ![p] = "c_insert", ![a] = "armed"]
            /\ loc' = [loc EXCEPT ![p].a = a]
            /\ ret' = NoRet
       ELSE RelayFailed(p)
  /\ UNCHANGED <<allocations, nClose, connVars, readers, fault, resVars>>

\* The insert left out.
InsertedNot(ft, a) == allocations
\* The directory after the insert of CreateAllocation.
Inserted(ft, a) == [allocations EXCEPT ![Fingerprint(ft)] = a]

\* The relay task started where the insert belongs, and nothing inserted.
StartNoInsert(p) ==
  /\ Alive
  /\ pc[p] = "c_insert"
  /\ alloc' = [alloc EXCEPT ![loc[p].a].task = TRUE]
  /\ pc' = [pc EXCEPT ![p] = "c_start"]
  /\ ret' = NoRet
  /\ UNCHANGED <<allocations, nAlloc, nClose, loc, connVars, readers, fault, resVars>>
\* m.lock.Lock(); m.allocations[fiveTuple.Fingerprint()] = a; m.lock.Unlock()
CreateInsert(p) ==
  /\ Alive
  /\ pc[p] = "c_insert"
  /\ readers = {}
  /\ allocations' = Inserted(loc[p].ft, loc[p].a)
  /\ pc' = [pc EXCEPT ![p] = "c_start"]
  /\ ret' = NoRet
  /\ UNCHANGED <<alloc, nAlloc, nClose, loc, connVars, readers, fault, resVars>>

\* go a.packetHandler(m) / go a.listenHandler(m), and the return.
CreateStart(p) ==
  /\ Alive
  /\ pc[p] = "c_start"
  /\ alloc' = [alloc EXCEPT ![loc[p].a].task = TRUE]
  /\ Return(p, [op |-> "create", val |-> loc[p].a, err |-> "none"])
  /\ UNCHANGED <<allocations, nAlloc, nClose, connVars, readers, fault, resVars>>

\* Allocation.Close: the relay resource, the timers and the peer connections.
AllocClosed(r, ok, byDelete) ==
  [r EXCEPT !.closeCalls = @ + 1,
            !.delCloses = IF byDelete THEN @ + 1 ELSE @,
            !.relay = IF ok THEN "closed" ELSE @]
TimerStopped(S) ==
  [t \in Threads |-> IF t \in S /\ pc[t] = "armed" THEN "stopped" ELSE pc[t]]
ConnsClosed(S) ==
  [c \in CIDs |-> IF conns[c].a \in S THEN NoConn ELSE conns[c]]

\* The lifetime timer fires: its callback starts.
TimerFire(a) ==
  /\ Alive
  /\ pc[a] = "armed"
  /\ pc' = [pc EXCEPT ![a] = "d_lock"]
  /\ loc' = [loc EXCEPT ![a] = [NoLoc EXCEPT !.ft = alloc[a].fiveTuple]]
  /\ ret' = NoRet
  /\ UNCHANGED <<allocVars, connVars, readers, fault, resVars>>

\* The delete left out.
DeletedNot(ft) == allocations
\* The directory after the delete of DeleteAllocation.
Deleted(ft) == [allocations EXCEPT ![Fingerprint(ft)] = NoAlloc]

\* The critical section of DeleteAllocation, and the nil test after it.
DelLock(t, ft) ==
  /\ readers = {}
  /\ allocations' = Deleted(ft)
  /\ LET a == allocations[Fingerprint(ft)] IN
     IF a = NoAlloc
       THEN Return(t, [op |-> "delete", val |-> NoAlloc, err |-> "none"])
       ELSE /\ pc' = [pc EXCEPT ![t] = "d_close"]
            /\ loc' = [loc EXCEPT ![t] = [NoLoc EXCEPT !.ft = ft, !.a = a]]
            /\ ret' = NoRet
  /\ UNCHANGED <<alloc, nAlloc, nClose, connVars, readers, fault, resVars>>

DeleteAllocation(p, ft) ==
  /\ Alive
  /\ pc[p] = "idle"
  /\ DelLock(p, ft)

TimerDelete(a) ==
  /\ Alive
  /\ pc[a] = "d_lock"
  /\ DelLock(a, loc[a].ft)

\* allocation.Close() of DeleteAllocation; a failure is logged.
DelClose(t, ok) ==
  /\ Alive
  /\ pc[t] = "d_close"
  /\ LET a == loc[t].a IN
     /\ alloc' = [alloc EXCEPT ![a] = AllocClosed(@, ok, TRUE)]
     /\ pc' = [TimerStopped({a}) EXCEPT ![t] = Finish(t)]
     /\ conns' = ConnsClosed({a})
  /\ loc' = [loc EXCEPT ![t] = NoLoc]
  /\ ret' = IF t \in Procs
              THEN [op |-> "delete", val |-> loc[t].a, err |-> "none"]
              ELSE NoRet
  /\ UNCHANGED <<allocations, nAlloc, nClose, waitingconns, runningconns,
                 tmo, handles, expired, readers, fault, resVars>>

\* The allocations of the directory.
Live == {allocations[f] : f \in Fingerprints} \ {NoAlloc}

\* Manager.Close: closes the allocations of the directory in the map's
\* order and returns at the first failure. S is what the loop reached,
\* bad the one whose Close failed (NoAlloc: none).
ManagerClose(p, S, bad) ==
  /\ Alive
  /\ pc[p] = "idle"
  /\ readers = {}
  /\ nClose < MaxManagerClose
  /\ S \subseteq Live
  /\ IF bad = NoAlloc THEN S = Live ELSE bad \in S
  /\ nClose' = nClose + 1
  /\ alloc' = [a \in Allocs |->
       IF a \in S THEN AllocClosed(alloc[a], a # bad, FALSE) ELSE alloc[a]]
  /\ pc' = TimerStopped(S)
  /\ conns' = ConnsClosed(S)
  /\ ret' = [op |-> "close", val |-> NoAlloc,
             err |-> IF bad = NoAlloc THEN "none" ELSE "ErrClose"]
  /\ UNCHANGED <<allocations, nAlloc, loc, waitingconns, runningconns,
                 tmo, handles, expired, readers, fault, resVars>>

AllocNext ==
  \/ \E p \in Procs, in \in CreateInputs : CreateAllocation(p, in[1], in[2], in[3])
  \/ \E p \in Procs, ok \in BOOLEAN : CreateRelay(p, ok)
  \/ \E p \in Procs : CreateInsert(p)
  \/ \E p \in Procs : CreateStart(p)
  \/ \E a \in Allocs : TimerFire(a)
  \/ \E p \in Procs, ft \in ValidTuples : DeleteAllocation(p, ft)
  \/ \E a \in Allocs : TimerDelete(a)
  \/ \E t \in Threads, ok \in BOOLEAN : DelClose(t, ok)
  \/ \E p \in Procs, S \in SUBSET Allocs, bad \in Allocs \cup {NoAlloc} :
       ManagerClose(p, S, bad)

\* ------------------------------------------------------------------ connection ids
\* The test against the running set left out.
AcceptableWaitingOnly(cid) ==
  /\ cid # 0
  /\ ~MapHas(waitingconns, cid)
\* The loop of newCID accepts the draw cid.
Acceptable(cid) ==
  /\ cid # 0
  /\ ~MapHas(waitingconns, cid)
  /\ ~MapHas(runningconns, cid)

\* The allocations a caller can hold a pointer to.
Known == {a \in Allocs : alloc[a].task} \cup Live

\* Connect up to the return of newCID: the draws and the insert, under
\* m.lock.Lock(). Assigning to an entry of a nil map is a runtime panic.
NewCID(p, a, dst, cid) ==
  /\ Alive
  /\ pc[p] = "idle"
  /\ readers = {}
  /\ a \in Known
  /\ Acceptable(cid)
  /\ IF waitingconns.made
       THEN /\ waitingconns' = MapSet(waitingconns, cid, a)
            /\ pc' = [pc EXCEPT ![p] = "n_dial"]
            /\ loc' = [loc EXCEPT ![p] = [NoLoc EXCEPT !.a = a, !.cid = cid, !.dst = dst]]
            /\ fault' = fault
       ELSE /\ fault' = "assignment to entry in nil map"
            /\ UNCHANGED <<waitingconns, pc, loc>>
  /\ ret' = NoRet
  /\ UNCHANGED <<allocVars, readers, runningconns, conns, tmo, handles, expired, resVars>>

\* Allocation.connect, go m.removeAfter30, and the return of Connect.
ConnectDial(p, ok) ==
  /\ Alive
  /\ pc[p] = "n_dial"
  /\ IF ok
       THEN /\ conns' = [conns EXCEPT ![loc[p].cid] = [a |-> loc[p].a, dst |-> loc[p].dst]]
            /\ tmo' = [tmo EXCEPT ![loc[p].cid] = loc[p].dst]
            /\ Return(p, [op |-> "connect", val |-> loc[p].cid, err |-> "none"])
       ELSE /\ Return(p, [op |-> "connect", val |-> 0, err |-> "ErrConnect"])
            /\ UNCHANGED <<conns, tmo>>
  /\ UNCHANGED <<allocVars, readers, waitingconns, runningconns, handles, expired, fault, resVars>>

\* Allocation.removeConnection(cid, dst) on allocation a.
RemoveConnection(a, cid, dst) ==
  IF conns[cid] = [a |-> a, dst |-> dst] THEN [conns EXCEPT ![cid] = NoConn] ELSE conns

\* The delete left out.
UnwaitNot(cid) == waitingconns
\* delete(m.waitingconns, cid)
Unwait(cid) == MapDelete(waitingconns, cid)

\* removeAfter30 once its 30 seconds have passed.
RemoveAfter30(cid) ==
  /\ Alive
  /\ tmo[cid] # "none"
  /\ readers = {}
  /\ tmo' = [tmo EXCEPT ![cid] = "none"]
  /\ IF MapHas(waitingconns, cid)
       THEN /\ waitingconns' = Unwait(cid)
            /\ conns' = RemoveConnection(MapGet(waitingconns, cid), cid, tmo[cid])
            /\ expired' = expired \cup {cid}
       ELSE UNCHANGED <<waitingconns, conns, expired>>
  /\ ret' = NoRet
  /\ UNCHANGED <<allocVars, pc, loc, readers, runningconns, handles, fault, resVars>>

\* BindConnection: m.lock.RLock() and a := m.waitingconns[cid].
BindConnection(p, cid) ==
  /\ Alive
  /\ pc[p] = "idle"
  /\ readers' = readers \cup {p}
  /\ pc' = [pc EXCEPT ![p] = "b_delete"]
  /\ loc' = [loc EXCEPT ![p] = [NoLoc EXCEPT !.a = MapGet(waitingconns, cid), !.cid = cid]]
  /\ ret' = NoRet
  /\ UNCHANGED <<allocVars, connVars, fault, resVars>>

\* delete(m.waitingconns, cid)
BindDelete(p) ==
  /\ Alive
  /\ pc[p] = "b_delete"
  /\ waitingconns' = Unwait(loc[p].cid)
  /\ pc' = [pc EXCEPT ![p] = "b_finish"]
  /\ ret' = NoRet
  /\ UNCHANGED <<allocVars, loc, readers, runningconns, conns, tmo, handles, expired, fault, resVars>>

\* The write to the running set left out.
RunningNot(cid, a) == runningconns
\* m.runningconns[cid] = a
Running(cid, a) == MapSet(runningconns, cid, a)

\* Allocation.GetConnectionByID: 1 for the handle of cid, 0 for none.
GetConnectionByID(a, cid) == IF conns[cid].a = a THEN 1 ELSE 0

\* The nil test, m.runningconns[cid] = a, and the return under the deferred RUnlock.
BindFinish(p) ==
  /\ Alive
  /\ pc[p] = "b_finish"
  /\ readers' = readers \ {p}
  /\ LET a == loc[p].a
         cid == loc[p].cid IN
     IF a = NoAlloc
       THEN /\ Return(p, [op |-> "bind", val |-> 0, err |-> "none"])
            /\ UNCHANGED <<runningconns, handles>>
       ELSE /\ runningconns' = Running(cid, a)
            /\ handles' = [handles EXCEPT ![cid] = @ + GetConnectionByID(a, cid)]
            /\ Return(p, [op |-> "bind", val |-> GetConnectionByID(a, cid), err |-> "none"])
  /\ UNCHANGED <<allocVars, waitingconns, conns, tmo, expired, fault, resVars>>

\* A thread inside BindConnection that is about to write to a map.
Writing(p) ==
  /\ p \in readers
  /\ waitingconns.made
  /\ pc[p] = "b_delete" \/ (pc[p] = "b_finish" /\ loc[p].a # NoAlloc)

\* Two readers write to the maps at once: the runtime may stop the process
\* ("fatal error: concurrent map writes").
BindRace(p, q) ==
  /\ Alive
  /\ p # q
  /\ Writing(p)
  /\ Writing(q)
  /\ fault' = "concurrent map writes"
  /\ ret' = NoRet
  /\ UNCHANGED <<allocVars, pc, loc, readers, connVars, resVars>>

BindNext ==
  \/ \E p \in Procs, cid \in CIDs : BindConnection(p, cid)
  \/ \E p \in Procs : BindDelete(p)
  \/ \E p \in Procs : BindFinish(p)

ConnNext ==
  \/ \E p \in Procs, a \in Allocs, dst \in Dsts, cid \in CIDs : NewCID(p, a, dst, cid)
  \/ \E p \in Procs, ok \in BOOLEAN : ConnectDial(p, ok)
  \/ \E cid \in CIDs : RemoveAfter30(cid)
  \/ BindNext
  \/ \E p \in Procs, q \in Procs : BindRace(p, q)

\* ------------------------------------------------------------------ reservations
\* The calls of CreateReservation made so far.
Made == {k \in Calls : rsv[k].call # "none"}

\* CreateReservation up to m.lock.Lock(): time.AfterFunc schedules the expiry
\* callback of this call, which holds its token.
CreateReservation(p, tok, port) ==
  /\ Alive
  /\ pc[p] = "idle"
  /\ Cardinality(Made) < MaxReservations
  /\ LET k == Cardinality(Made) + 1 IN
     /\ rsv' = [rsv EXCEPT ![k] = [token |-> tok, port |-> port,
                                   call |-> "locking", timer |-> "armed"]]
     /\ pc' = [pc EXCEPT ![p] = "r_insert"]
     /\ loc' = [loc EXCEPT ![p] = [NoLoc EXCEPT !.k = k]]
  /\ ret' = NoRet
  /\ UNCHANGED <<allocVars, connVars, readers, fault, reservations, probes>>

\* m.reservations = append(m.reservations, &reservation{token, port}); call
\* is the identity of the entry: the call that allocated it.
Reserved(k) ==
  Append(reservations, [token |-> rsv[k].token, port |-> rsv[k].port, call |-> k])

\* The critical section of CreateReservation, and its return.
ReserveInsert(p) ==
  /\ Alive
  /\ pc[p] = "r_insert"
  /\ readers = {}
  /\ reservations' = Reserved(loc[p].k)
  /\ rsv' = [rsv EXCEPT ![loc[p].k].call = "returned"]
  /\ Return(p, [op |-> "reserve", val |-> loc[p].k, err |-> "none"])
  /\ UNCHANGED <<allocVars, connVars, readers, fault, probes>>

\* The indices of the entries with token tok.
WithToken(tok) == {i \in 1..Len(reservations) : reservations[i].token = tok}

\* The loop of the expiry callback, from the end of the list: the index of
\* the last entry with the token, 0 when there is none.
LastWithToken(tok) ==
  IF WithToken(tok) = {} THEN 0
  ELSE CHOOSE i \in WithToken(tok) : \A j \in WithToken(tok) : j <= i

\* append(m.reservations[:i], m.reservations[i+1:]...)
Removed(i) ==
  SubSeq(reservations, 1, i - 1) \o SubSeq(reservations, i + 1, Len(reservations))

\* The expiry callback of call k, 30 seconds after time.AfterFunc.
ReservationExpires(k) ==
  /\ Alive
  /\ rsv[k].timer = "armed"
  /\ readers = {}
  /\ rsv' = [rsv EXCEPT ![k].timer = "fired"]
  /\ LET i == LastWithToken(rsv[k].token) IN
     reservations' = IF i = 0 THEN reservations ELSE Removed(i)
  /\ ret' = NoRet
  /\ UNCHANGED <<allocVars, connVars, pc, loc, readers, fault, probes>>

\* GetReservation: the first entry with the token, in the order of the list.
GetReservation(tok) ==
  IF WithToken(tok) = {} THEN [port |-> 0, found |-> FALSE]
  ELSE LET i == CHOOSE i \in WithToken(tok) : \A j \in WithToken(tok) : i <= j IN
       [port |-> reservations[i].port, found |-> TRUE]

\* A call of GetReservation; err = "none" stands for found, "not found" for not.
GetReservationCall(p, tok) ==
  /\ Alive
  /\ pc[p] = "idle"
  /\ ret' = [op |-> "getReservation", val |-> GetReservation(tok).port,
             err |-> IF GetReservation(tok).found THEN "none" ELSE "not found"]
  /\ UNCHANGED <<allocVars, connVars, pc, loc, readers, fault, resVars>>

\* ------------------------------------------------------------------ even ports
\* Go's %: the remainder has the sign of the dividend.
GoRem(x, m) == IF x >= 0 THEN x % m ELSE -((-x) % m)

\* The body of GetRandomEvenPort, once: the capability (ok: it returned no
\* error, and then an address of kind `kind` with port `port`), the cast,
\* conn.Close() (closeOk: it returned no error), and the parity test.
ProbePort(p, ok, kind, port, closeOk) ==
  /\ Alive
  /\ IF ~ok
       THEN /\ Return(p, [op |-> "port", val |-> 0, err |-> "ErrAllocate"])
            /\ probes' = probes
     ELSE /\ probes.obtained < MaxProbes
          /\ IF kind # "UDPAddr"
               THEN /\ probes' = [probes EXCEPT !.obtained = @ + 1]
                    /\ Return(p, [op |-> "port", val |-> 0, err |-> "ErrCast"])
             ELSE /\ probes' = [obtained |-> probes.obtained + 1,
                                closed |-> probes.closed + 1]
                  /\ IF ~closeOk
                       THEN Return(p, [op |-> "port", val |-> 0, err |-> "ErrClose"])
                     ELSE IF GoRem(port, 2) = 1
                       THEN /\ pc' = [pc EXCEPT ![p] = "g_retry"]
                            /\ loc' = loc
                            /\ ret' = NoRet
                     ELSE Return(p, [op |-> "port", val |-> port, err |-> "none"])
  /\ UNCHANGED <<allocVars, connVars, readers, fault, reservations, rsv>>

\* A call of GetRandomEvenPort.
GetRandomEvenPort(p, ok, kind, port, closeOk) ==
  /\ pc[p] = "idle"
  /\ ProbePort(p, ok, kind, port, closeOk)

\* return m.GetRandomEvenPort(): the call of itself after an odd port.
RetryEvenPort(p, ok, kind, port, closeOk) ==
  /\ pc[p] = "g_retry"
  /\ ProbePort(p, ok, kind, port, closeOk)

\* The Manager of NewManager under reservation and port calls only.
NextRes ==
  \/ \E p \in Procs, tok \in Tokens, port \in ReservedPorts : CreateReservation(p, tok, port)
  \/ \E p \in Procs : ReserveInsert(p)
  \/ \E k \in Calls : ReservationExpires(k)
  \/ \E p \in Procs, tok \in Tokens : GetReservationCall(p, tok)
  \/ \E p \in Procs, ok \in BOOLEAN, kind \in AddrKinds, port \in Ports, closeOk \in BOOLEAN :
       GetRandomEvenPort(p, ok, kind, port, closeOk)
  \/ \E p \in Procs, ok \in BOOLEAN, kind \in AddrKinds, port \in Ports, closeOk \in BOOLEAN :
       RetryEvenPort(p, ok, kind, port, closeOk)

SpecRes == Init /\ [][NextRes]_vars

Next ==
  \/ AllocNext
  \/ \E p \in Procs, a \in Allocs, dst \in Dsts, cid \in CIDs : NewCID(p, a, dst, cid)

Spec == Init /\ [][Next]_vars

\* A Manager whose two connection-id maps have been made.
InitConns ==
  /\ allocations = [f \in Fingerprints |-> NoAlloc]
  /\ alloc = [a \in Allocs |-> NewAlloc]
  /\ nAlloc = 0
  /\ nClose = 0
  /\ pc = [t \in Threads |-> IF t \in Procs THEN "idle" ELSE "unset"]
  /\ loc = [t \in Threads |-> NoLoc]
  /\ ret = NoRet
  /\ readers = {}
  /\ waitingconns = EmptyMap
  /\ runningconns = EmptyMap
  /\ conns = [c \in CIDs |-> NoConn]
  /\ tmo = [c \in CIDs |-> "none"]
  /\ handles = [c \in CIDs |-> 0]
  /\ expired = {}
  /\ fault = "none"
  /\ reservations = << >>
  /\ rsv = [k \in Calls |-> NoCall]
  /\ probes = NoProbes

\* The same Manager with at most MaxConnAllocs allocations, which callers
\* create and delete; no lifetime runs out and the Manager is not closed.
NextConns ==
  \/ \E p \in Procs, in \in CreateInputs :
       nAlloc + Building < MaxConnAllocs /\ CreateAllocation(p, in[1], in[2], in[3])
  \/ \E p \in Procs, ok \in BOOLEAN : CreateRelay(p, ok)
  \/ \E p \in Procs : CreateInsert(p)
  \/ \E p \in Procs : CreateStart(p)
  \/ \E p \in Procs, ft \in ValidTuples : DeleteAllocation(p, ft)
  \/ \E p \in Procs, ok \in BOOLEAN : DelClose(p, ok)
  \/ ConnNext

SpecConns == InitConns /\ [][NextConns]_vars

\* ------------------------------------------------------------------ properties
\* An allocation CreateAllocation returned and no DeleteAllocation removed.
Registered(a) ==
  /\ alloc[a].task
  /\ alloc[a].delCloses = 0
  /\ \A t \in Threads : ~(pc[t] = "d_close" /\ loc[t].a = a)

\* C1: concurrent CreateAllocation calls with one FiveTuple never leave two
\* allocations of that tuple: of the allocations that were returned and not
\* deleted, no two have the same FiveTuple.
C1_OnePerTuple ==
  \A a \in Allocs, b \in Allocs :
    (a # b /\ Registered(a) /\ Registered(b))
      => alloc[a].fiveTuple # alloc[b].fiveTuple

\* C2: a CreateAllocation for a FiveTuple that has an allocation registered
\* returns an error and no allocation, and leaves the directory and every
\* allocation as they were.
C2_DuplicateRejected ==
  [][\A p \in Procs, in \in ValidTuples \X TurnSockets \X Lifetimes :
       (GetAllocation(in[1]) # NoAlloc /\ CreateAllocation(p, in[1], in[2], in[3]))
         => /\ ret'.op = "create"
            /\ ret'.err # "none"
            /\ ret'.val = NoAlloc
            /\ allocations' = allocations
            /\ alloc' = alloc
            /\ pc' = pc]_vars

\* A duplicate CreateAllocation was just rejected and an allocation is registered.
C2_Witness ==
  /\ ret.op = "create"
  /\ ret.err = "ErrDuplicate"
  /\ \E a \in Live : alloc[a].closeCalls = 0

\* C3: right after the insert of a CreateAllocation, GetAllocation of its
\* tuple is the instance the call returns; right after the critical section
\* of a DeleteAllocation, GetAllocation of its tuple is none.
C3_CreateGetDelete ==
  [][/\ \A p \in Procs :
          CreateInsert(p) => GetAllocation(loc[p].ft)' = loc[p].a
     /\ \A p \in Procs :
          CreateStart(p) => (ret'.val = loc[p].a /\ ret'.err = "none")
     /\ \A p \in Procs, ft \in ValidTuples :
          DeleteAllocation(p, ft) => GetAllocation(ft)' = NoAlloc]_vars

\* An allocation was created and returned, then deleted: it is gone.
C3_Witness ==
  /\ ret.op = "delete"
  /\ ret.val # NoAlloc
  /\ alloc[ret.val].task
  /\ GetAllocation(alloc[ret.val].fiveTuple) = NoAlloc

\* C4: once the lifetime timer of a returned allocation has fired and its
\* callback has finished, the allocation is not in the directory and its
\* Close was called (or a DeleteAllocation that removed it is closing it).
C4_ExpiredIsGone ==
  \A a \in Allocs :
    (alloc[a].task /\ pc[a] = "done")
      => /\ a \notin Live
         /\ \/ alloc[a].closeCalls >= 1
            \/ \E t \in Threads : pc[t] = "d_close" /\ loc[t].a = a

\* C9: when Manager.Close returns, every allocation of the directory has been
\* closed, and no allocation is ever closed twice.
C9_CloseOnce ==
  /\ ret.op = "close" => \A a \in Live : alloc[a].closeCalls >= 1
  /\ \A a \in Allocs : alloc[a].closeCalls <= 1

\* C10: the critical section of DeleteAllocation leaves no entry for the
\* tuple, whether or not there was one; its Close, failed or not, leaves the
\* directory alone and returns no error; and DeleteAllocation calls close no
\* allocation twice.
C10_DeleteIdempotent ==
  [][/\ \A p \in Procs, ft \in ValidTuples :
          DeleteAllocation(p, ft) => allocations'[Fingerprint(ft)] = NoAlloc
     /\ \A a \in Allocs :
          TimerDelete(a) => allocations'[Fingerprint(loc[a].ft)] = NoAlloc
     /\ \A t \in Threads, ok \in BOOLEAN :
          DelClose(t, ok) => (allocations' = allocations /\ ret'.err = "none")
     /\ \A a \in Allocs : alloc'[a].delCloses <= 1]_vars

\* A DeleteAllocation found nothing to remove, after another one had removed
\* the allocation of that tuple and its Close had failed.
C10_Witness ==
  /\ ret = [op |-> "delete", val |-> NoAlloc, err |-> "none"]
  /\ \E a \in Allocs :
       /\ alloc[a].delCloses = 1
       /\ alloc[a].relay = "open"
       /\ GetAllocation(alloc[a].fiveTuple) = NoAlloc

Drawn(p) == pc[p] = "n_dial"

ManagerKept ==
  /\ allocations' = allocations
  /\ alloc' = alloc
  /\ nAlloc' = nAlloc
  /\ \A a \in Allocs : pc'[a] = pc[a]
  /\ reservations' = reservations
  /\ waitingconns' = waitingconns
  /\ runningconns' = runningconns

\* C11: a CreateAllocation that returns an error (invalid input, duplicate
\* tuple, failed capability) has changed nothing: neither the step that
\* returns the error nor the step of the call before it registers an
\* allocation, arms a timer, starts a relay task, or touches the reservation
\* list or the connection-id sets.
C11_ErrorLeavesState ==
  [][/\ (ret'.op = "create" /\ ret'.err # "none") => ManagerKept
     /\ \A p \in Procs :
          (pc[p] = "idle" /\ pc'[p] = "c_alloc") => ManagerKept]_vars

\* The capability has just failed a CreateAllocation while another
\* allocation is registered.
C11_Witness ==
  /\ ret.op = "create"
  /\ ret.err = "ErrAllocate"
  /\ Live # {}
  /\ nAlloc = Cardinality(Live)

\* C12: a CreateAllocation whose lifetime is zero or negative returns an error
\* at once: it builds no allocation, asks for no relay resource and arms no
\* timer.
C12_NonPositiveRejected ==
  [][\A p \in Procs, in \in CreateInputs :
       (in[3] <= 0 /\ CreateAllocation(p, in[1], in[2], in[3]))
         => /\ ret'.op = "create"
            /\ ret'.err # "none"
            /\ pc'[p] = "idle"]_vars

\* C13: right after CreateReservation(T, P) has inserted its reservation,
\* GetReservation(T) is (P, true), whatever calls came before, also calls with
\* the same token; and once the 30 seconds of a reservation are over (its
\* expiry callback has run), GetReservation(T) finds nothing.
C13_ReservationRetrievable ==
  [][/\ \A p \in Procs, k \in Calls, tok \in Tokens, port \in ReservedPorts :
          (/\ loc[p].k = k
           /\ rsv[k].token = tok
           /\ rsv[k].port = port
           /\ ReserveInsert(p))
            => GetReservation(tok)' = [port |-> port, found |-> TRUE]
     /\ \A k \in Calls, tok \in Tokens :
          (/\ rsv[k].call = "returned"
           /\ rsv[k].token = tok
           /\ ReservationExpires(k))
            => ~GetReservation(tok)'.found]_vars

\* No two entries of the reservation list have the same token.
OnePerToken ==
  \A i \in 1..Len(reservations), j \in 1..Len(reservations) :
    i # j => reservations[i].token # reservations[j].token

\* The calls whose entries are in the reservation list.
Listed == {reservations[i].call : i \in 1..Len(reservations)}

\* C14: the reservation list never holds two reservations with one token, and
\* the expiry callback of a CreateReservation call that has inserted its
\* entry removes that entry and no other.
C14_OnePerTokenOwnExpiry ==
  [][/\ OnePerToken'
     /\ \A k \in Calls :
          (rsv[k].call = "returned" /\ ReservationExpires(k))
            => Listed' = Listed \ {k}]_vars

\* C15: a port GetRandomEvenPort returns is even and not negative, and at
\* every return and every retry each endpoint obtained from the capability
\* has had its Close called.
C15_EvenPortNoLeak ==
  /\ (ret.op = "port" /\ ret.err = "none") => (ret.val >= 0 /\ ret.val % 2 = 0)
  /\ probes.closed = probes.obtained

C17_TaskAfterInsert ==
  [][/\ \A a \in Allocs :
          (~alloc[a].task /\ alloc'[a].task)
            => \E p \in Procs : pc[p] = "c_start" /\ loc[p].a = a
     /\ \A p \in Procs :
          (pc[p] # "c_start" /\ pc'[p] = "c_start")
            => /\ readers = {}
               /\ readers' = {}
               /\ ~alloc'[loc'[p].a].task
               /\ allocations'[Fingerprint(loc'[p].ft)] = loc'[p].a]_vars

\* The relay task of an allocation runs and the allocation is in the directory.
C17_Witness ==
  \E a \in Allocs :
    /\ alloc[a].task
    /\ GetAllocation(alloc[a].fiveTuple) = a
    /\ alloc[a].closeCalls = 0

\* C18: the callback of the lifetime timer armed for an allocation removes
\* from the directory, and closes, that allocation only, never another
\* allocation registered under the same FiveTuple.
C18_TimerRemovesOwn ==
  [][\A a \in Allocs :
       /\ TimerDelete(a) => GetAllocation(loc[a].ft) \in {NoAlloc, a}
       /\ \A ok \in BOOLEAN :
            (pc[a] = "d_close" /\ DelClose(a, ok)) => loc[a].a = a]_vars

\* An allocation a DeleteAllocation has removed from the directory.
Removing(a) == \E t \in Threads : pc[t] = "d_close" /\ loc[t].a = a
DeletedAlloc(a) == alloc[a].delCloses >= 1 \/ Removing(a)

C20_MapsReady ==
  [][/\ \A p \in Procs, a \in Allocs, dst \in Dsts, cid \in CIDs :
          NewCID(p, a, dst, cid)
            => /\ fault' = "none"
               /\ MapGet(waitingconns', cid) = a
               /\ pc'[p] = "n_dial"
     /\ \A p \in Procs :
          (loc[p].a # NoAlloc /\ BindFinish(p))
            => /\ fault' = "none"
               /\ MapGet(runningconns', loc[p].cid) = loc[p].a]_vars
====
